---- MODULE Spec2Model ----
(***************************************************************************)
(* Samba Control Center (samba_control_center.py): the configuration-file  *)
(* store (SambaConfig), the mount-table store (MountManager) and the       *)
(* request handler (index) that drives them.                               *)
(*                                                                         *)
(* Files are sequences of line records.  Text is kept as TLA+ strings      *)
(* taken from a small universe; the string functions the code uses         *)
(* (str.lower, str.strip, the substring test `in`, str.replace) are        *)
(* tabulated over that universe.                                           *)
(*                                                                         *)
(* A request is a thread of index(); its steps are cut at the file-system  *)
(* operations (load, backup copy, write), so that two requests can         *)
(* interleave where the code takes no lock.  Failures of mkdir and of the  *)
(* backup copy are choices of the environment; a failing open() for        *)
(* writing and continuation lines of smb.conf are outside the model.       *)
(*                                                                         *)
(* External tools (subprocess.run) are a log of the calls made, each with  *)
(* the outcome the environment chose; /proc/mounts is a set of lines the   *)
(* kernel changes at will.  The __main__ block is the port loop followed   *)
(* by the serving of requests.                                             *)
(***************************************************************************)
EXTENDS Integers, Sequences, FiniteSets, TLC

\* ------------------------------------------------------------------ bounds
MaxTime == 1      \* the wall clock runs over 0..MaxTime seconds
MaxReqs == 2      \* number of requests handled in one behaviour

Reqs == {1, 2}    \* request threads of the (threaded) development server

\* None is the value configparser stores for a key without a delimiter
None == "<None>"

VARIABLES
    now,        \* datetime.now(), to second granularity
    nreq,       \* number of requests begun so far
    conf,       \* /etc/samba/smb.conf : [exists, lines]
    backups,    \* BACKUP_DIR : timestamp -> content of smb.conf.<timestamp>.bak
    fstab,      \* /etc/fstab : [lines, nl]; nl = the last line ends with a newline
    fstabBak,   \* /etc/fstab.bak : [exists, lines, nl]
    creds,      \* CREDENTIALS_DIR : path -> [user, pass, mode]
    pc,         \* per request: position in index()
    form,       \* per request: request.form
    parser,     \* per request: samba_config.parser
    shares,     \* per request: the local `shares` of index()
    mounts,     \* per request: the local `mounts` of index()
    buf,        \* per request: the local `lines` of delete_mount / pending text
    resp,       \* per request: redirect / status message produced
    mutConf,    \* history: per write of save(), the form and the smb.conf it replaced
    mutFstab,   \* history: per write to fstab, the form and the fstab it replaced
    tools,      \* history: the subprocess.run calls made, [cmd, arg, rc]
    procMounts, \* /proc/mounts : the set of its lines, each a sequence of fields
    boot        \* the __main__ block: [pc, tried, ran, status]; ran = app.run served

vars == <<now, nreq, conf, backups, fstab, fstabBak, creds,
          pc, form, parser, shares, mounts, buf, resp, mutConf, mutFstab,
          tools, procMounts, boot>>

\* --------------------------------------------------------- string functions
\* str.lower() over the universe of section names, keys and values
Lower(s) ==
    CASE s = "Docs"   -> "docs"
      [] s = "Global" -> "global"
      [] s = "GLOBAL" -> "global"
      [] s = "Path"   -> "path"
      [] s = "Yes"    -> "yes"
      [] s = "CIFS"   -> "cifs"
      [] OTHER        -> s

\* str.strip() over the universe of submitted form values
Strip(s) ==
    CASE s = " docs " -> "docs"
      [] s = "  "     -> ""
      [] s = " /mnt/x " -> "/mnt/x"
      [] OTHER        -> s

\* ------------------------------------------------------- smb.conf as lines
Hdr(n)        == [k |-> "hdr",   name |-> n,  key |-> "", val |-> "", sp |-> FALSE]
Key(ky, v, s) == [k |-> "key",   name |-> "", key |-> ky, val |-> v,  sp |-> s]
Cmt           == [k |-> "cmt",   name |-> "", key |-> "", val |-> "", sp |-> FALSE]
Blank         == [k |-> "blank", name |-> "", key |-> "", val |-> "", sp |-> FALSE]

Opt(ky, v) == [key |-> ky, val |-> v]

HasOpt(opts, ky) == \E j \in 1..Len(opts) : opts[j].key = ky
OptVal(opts, ky) == opts[CHOOSE j \in 1..Len(opts) : opts[j].key = ky].val

\* dict assignment: an existing key keeps its position
SetOpt(opts, ky, v) ==
    IF HasOpt(opts, ky)
    THEN [j \in 1..Len(opts) |-> IF opts[j].key = ky THEN Opt(ky, v) ELSE opts[j]]
    ELSE Append(opts, Opt(ky, v))

SecIndex(secs, n) ==
    IF \E j \in 1..Len(secs) : secs[j].name = n
    THEN CHOOSE j \in 1..Len(secs) : secs[j].name = n
    ELSE 0

EmptyParser == [ok |-> TRUE, defaults |-> <<>>, sections |-> <<>>, cur |-> 0]

\* ConfigParser.read_file with strict=False, allow_no_value=True,
\* interpolation=None.  cur: 0 = no section yet, -1 = [DEFAULT], j = sections[j].
RECURSIVE read_file(_, _)
read_file(lines, st) ==
    IF lines = <<>> THEN st
    ELSE
      LET l == Head(lines) IN
      IF l.k \in {"cmt", "blank"} THEN read_file(Tail(lines), st)
      ELSE IF l.k = "hdr" THEN
        IF l.name = "DEFAULT" THEN read_file(Tail(lines), [st EXCEPT !.cur = -1])
        ELSE IF SecIndex(st.sections, l.name) # 0
          THEN read_file(Tail(lines), [st EXCEPT !.cur = SecIndex(st.sections, l.name)])
          ELSE read_file(Tail(lines),
                 [st EXCEPT !.sections = Append(@, [name |-> l.name, opts |-> <<>>]),
                            !.cur = Len(st.sections) + 1])
      ELSE \* a key line; optionxform lower-cases the key
        IF st.cur = 0 THEN [st EXCEPT !.ok = FALSE]   \* MissingSectionHeaderError
        ELSE IF st.cur = -1
          THEN read_file(Tail(lines),
                 [st EXCEPT !.defaults = SetOpt(@, Lower(l.key), l.val)])
          ELSE read_file(Tail(lines),
                 [st EXCEPT !.sections[st.cur].opts = SetOpt(@, Lower(l.key), l.val)])

\* SambaConfig.load: the parser is created first, so a missing or unparsable
\* file leaves a parser without sections; the result of load() is .ok
load(file) ==
    IF file.exists
    THEN LET st == read_file(file.lines, EmptyParser)
         IN  [ok |-> st.ok, defaults |-> st.defaults, sections |-> st.sections]
    ELSE [ok |-> FALSE, defaults |-> <<>>, sections |-> <<>>]

\* ConfigParser._write_section with space_around_delimiters=True
write_section(n, opts) ==
    <<Hdr(n)>> \o [j \in 1..Len(opts) |-> Key(opts[j].key, opts[j].val, TRUE)] \o <<Blank>>

\* write_sections emitting the sections last to first
RECURSIVE write_sections_rev(_)
write_sections_rev(secs) ==
    IF secs = <<>> THEN <<>>
    ELSE write_sections_rev(Tail(secs)) \o write_section(Head(secs).name, Head(secs).opts)

RECURSIVE write_sections(_)
write_sections(secs) ==
    IF secs = <<>> THEN <<>>
    ELSE write_section(Head(secs).name, Head(secs).opts) \o write_sections(Tail(secs))

\* ConfigParser.write: the defaults first (when there are any), then the sections
write(p) ==
    (IF p.defaults # <<>> THEN write_section("DEFAULT", p.defaults) ELSE <<>>)
      \o write_sections(p.sections)

has_section(p, n) == SecIndex(p.sections, n) # 0

\* ConfigParser.get(section, option, fallback=...)
get(p, n, ky, fallback) ==
    LET s == p.sections[SecIndex(p.sections, n)] IN
    IF HasOpt(s.opts, ky) THEN OptVal(s.opts, ky)
    ELSE IF HasOpt(p.defaults, ky) THEN OptVal(p.defaults, ky)
    ELSE fallback

\* ------------------------------------------------------------- SambaShare
SambaShare(n, pth, cm, wr, br, gu, vu, cmask, dmask) ==
    [name |-> n, path |-> pth, comment |-> cm, writable |-> wr, browseable |-> br,
     guest_ok |-> gu, valid_users |-> vu, create_mask |-> cmask, directory_mask |-> dmask]

IsGlobal(n) == Lower(n) = "global"

ShareSections(p) == SelectSeq(p.sections, LAMBDA s : ~IsGlobal(s.name))

\* get_shares calls .lower() on three of the values: a key without a value
\* (None) raises AttributeError, which nothing catches
get_shares_raises(p) ==
    \E j \in 1..Len(ShareSections(p)) :
       \E ky \in {"writable", "browseable", "guest ok"} :
          get(p, ShareSections(p)[j].name, ky, "x") = None

get_shares(p) ==
    LET ss == ShareSections(p) IN
    [j \in 1..Len(ss) |->
        SambaShare(ss[j].name,
                   get(p, ss[j].name, "path", ""),
                   get(p, ss[j].name, "comment", ""),
                   Lower(get(p, ss[j].name, "writable", "yes")) = "yes",
                   Lower(get(p, ss[j].name, "browseable", "yes")) = "yes",
                   Lower(get(p, ss[j].name, "guest ok", "no")) = "yes",
                   get(p, ss[j].name, "valid users", ""),
                   get(p, ss[j].name, "create mask", "0664"),
                   get(p, ss[j].name, "directory mask", "0775"))]

YesNo(b) == IF b THEN "yes" ELSE "no"

\* share_opts without the path key
share_opts_nopath(sh) ==
    <<Opt("writable", YesNo(sh.writable)),
      Opt("browseable", YesNo(sh.browseable)), Opt("guest ok", YesNo(sh.guest_ok))>>
    \o (IF sh.comment # "" THEN <<Opt("comment", sh.comment)>> ELSE <<>>)
    \o (IF sh.valid_users # "" THEN <<Opt("valid users", sh.valid_users)>> ELSE <<>>)
    \o <<Opt("create mask", sh.create_mask), Opt("directory mask", sh.directory_mask)>>

\* the keys add_share sets, in the order it sets them
share_opts(sh) ==
    <<Opt("path", sh.path), Opt("writable", YesNo(sh.writable)),
      Opt("browseable", YesNo(sh.browseable)), Opt("guest ok", YesNo(sh.guest_ok))>>
    \o (IF sh.comment # "" THEN <<Opt("comment", sh.comment)>> ELSE <<>>)
    \o (IF sh.valid_users # "" THEN <<Opt("valid users", sh.valid_users)>> ELSE <<>>)
    \o <<Opt("create mask", sh.create_mask), Opt("directory mask", sh.directory_mask)>>

\* add_share without the has_section test: an existing section is overwritten
add_share_nocheck(p, sh) ==
    IF sh.name = "DEFAULT"
    THEN [ok |-> FALSE, err |-> "Exception", parser |-> p]
    ELSE IF has_section(p, sh.name)
    THEN [ok |-> TRUE, err |-> "",
          parser |-> [p EXCEPT !.sections[SecIndex(p.sections, sh.name)].opts =
                                   share_opts(sh)]]
    ELSE [ok |-> TRUE, err |-> "",
          parser |-> [p EXCEPT !.sections =
                         Append(@, [name |-> sh.name, opts |-> share_opts(sh)])]]

\* SambaConfig.add_share up to the call of save(): the outcome and the parser
add_share(p, sh) ==
    IF has_section(p, sh.name)
    THEN [ok |-> FALSE, err |-> "Conflict", parser |-> p]
    ELSE IF sh.name = "DEFAULT"      \* add_section raises ValueError
    THEN [ok |-> FALSE, err |-> "Exception", parser |-> p]
    ELSE [ok |-> TRUE, err |-> "",
          parser |-> [p EXCEPT !.sections =
                         Append(@, [name |-> sh.name, opts |-> share_opts(sh)])]]

\* delete_share matching the section name without regard to letter case
delete_share_nocase(p, n) ==
    IF ~has_section(p, n)
    THEN [ok |-> FALSE, err |-> "NotFound", parser |-> p]
    ELSE [ok |-> TRUE, err |-> "",
          parser |-> [p EXCEPT !.sections =
                         SelectSeq(@, LAMBDA s : Lower(s.name) # Lower(n))]]

\* SambaConfig.delete_share up to the call of save()
delete_share(p, n) ==
    IF ~has_section(p, n)
    THEN [ok |-> FALSE, err |-> "NotFound", parser |-> p]
    ELSE [ok |-> TRUE, err |-> "",
          parser |-> [p EXCEPT !.sections = SelectSeq(@, LAMBDA s : s.name # n)]]


\* ---------------------------------------------------------- /etc/fstab lines
FBlank        == [k |-> "blank", remote |-> "", mp |-> "", fstype |-> "", opts |-> <<>>,
                  prov |-> FALSE, t |-> 0]
\* a comment line; prov: it starts with "# Added by Samba Control Center"
FCmt(pr, tm)  == [k |-> "cmt", remote |-> "", mp |-> "", fstype |-> "", opts |-> <<>>,
                  prov |-> pr, t |-> tm]
\* "remote<TAB>mountpoint<TAB>fstype<TAB>options<TAB>0 0"
FEnt(r, m, ty, os) == [k |-> "ent", remote |-> r, mp |-> m, fstype |-> ty, opts |-> os,
                  prov |-> FALSE, t |-> 0]

\* one option of the comma-separated options string
O(name)       == [o |-> name, v |-> ""]
OCred(path)   == [o |-> "credentials", v |-> path]

\* the substring test `a in b` over the universe of mountpoints and remotes
Substr(a, b) ==
    \/ a = ""
    \/ a = b
    \/ <<a, b>> \in {<<"/mnt/x", "/mnt/xy">>, <<"/srv", "//srv/share">>,
                     <<"/", "/mnt/x">>, <<"/", "/mnt/xy">>, <<"/", "/srv">>,
                     <<"/", "//srv/share">>, <<"/srv", "//srv/My Docs">>,
                     <<"/", "//srv/My Docs">>, <<"/", "/netdev">>,
                     <<"/", "/mnt/a/b">>, <<"/", "/mnt/a_b">>}

\* `mountpoint in line` for a line of the mount table
InLine(m, l) ==
    CASE l.k = "blank" -> m = ""
      [] l.k = "cmt"   -> m = ""
      [] OTHER         -> Substr(m, l.remote) \/ Substr(m, l.mp)

IsComment(l) == l.k = "cmt"          \* line.strip().startswith('#')
IsProvenance(l) == l.k = "cmt" /\ l.prov

\* the loop of delete_mount over the lines read: the lines written back
RECURSIVE dm_filter(_, _, _)
dm_filter(lines, m, skip_next_comment) ==
    IF lines = <<>> THEN <<>>
    ELSE LET l == Head(lines) IN
      IF InLine(m, l) /\ ~IsComment(l)
        THEN dm_filter(Tail(lines), m, TRUE)
      ELSE IF skip_next_comment /\ IsProvenance(l)
        THEN dm_filter(Tail(lines), m, FALSE)
      ELSE <<l>> \o dm_filter(Tail(lines), m, skip_next_comment)

\* does delete_mount write the last line that was read?
RECURSIVE dm_keeps_last(_, _, _)
dm_keeps_last(lines, m, skip_next_comment) ==
    IF lines = <<>> THEN FALSE
    ELSE LET l == Head(lines) IN
      IF InLine(m, l) /\ ~IsComment(l)
        THEN dm_keeps_last(Tail(lines), m, TRUE)
      ELSE IF skip_next_comment /\ IsProvenance(l)
        THEN dm_keeps_last(Tail(lines), m, FALSE)
      ELSE IF Len(lines) = 1 THEN TRUE
      ELSE dm_keeps_last(Tail(lines), m, skip_next_comment)

\* a delete_mount that leaves out the first matching line only
delete_mount_first(tab, m) ==
    LET hit == {q \in 1..Len(tab.lines) :
                   InLine(m, tab.lines[q]) /\ ~IsComment(tab.lines[q])}
        first == CHOOSE q \in hit : \A r \in hit : q <= r
    IN  IF hit = {} THEN tab
        ELSE [lines |-> SubSeq(tab.lines, 1, first - 1)
                          \o SubSeq(tab.lines, first + 1, Len(tab.lines)),
              nl |-> tab.nl]

\* the file delete_mount writes from the lines it read
delete_mount(tab, m) ==
    LET out == dm_filter(tab.lines, m, FALSE) IN
    [lines |-> out,
     nl    |-> IF out = <<>> THEN TRUE
               ELSE IF dm_keeps_last(tab.lines, m, FALSE) THEN tab.nl ELSE TRUE]

\* mountpoint.replace('/', '_') inside the credentials file name
creds_file(m) ==
    CASE m = "/mnt/x"  -> "/etc/samba/credentials/creds__mnt_x.txt"
      [] m = "/mnt/xy" -> "/etc/samba/credentials/creds__mnt_xy.txt"
      [] m = "/srv"    -> "/etc/samba/credentials/creds__srv.txt"
      [] m = "/"       -> "/etc/samba/credentials/creds__.txt"
      [] m = "/netdev" -> "/etc/samba/credentials/creds__netdev.txt"
      [] m = "/mnt/a/b" -> "/etc/samba/credentials/creds__mnt_a_b.txt"
      [] m = "/mnt/a_b" -> "/etc/samba/credentials/creds__mnt_a_b.txt"
      [] OTHER         -> "/etc/samba/credentials/creds_.txt"

\* `if username and password`, on the stripped form values
UsesCreds(f) == Strip(f.mount_username) # "" /\ Strip(f.mount_password) # ""

\* `'_netdev' in options`: a substring test on the whole options string, which
\* the credentials path of the mountpoint /netdev satisfies as well
HasNetdev(os) ==
    \E j \in 1..Len(os) :
        \/ os[j].o = "_netdev"
        \/ os[j].o = "credentials" /\ os[j].v = creds_file("/netdev")

\* the options add_mount writes: credentials injected, then the defaults
mount_options(f) ==
    LET withCreds == IF UsesCreds(f)
                     THEN Append(f.options, OCred(creds_file(Strip(f.mountpoint))))
                     ELSE f.options
    IN  IF withCreds = <<>> THEN <<O("_netdev"), O("nofail")>>
        ELSE IF ~HasNetdev(withCreds) THEN withCreds \o <<O("_netdev"), O("nofail")>>
        ELSE withCreds

\* the text add_mount appends: "\n", the provenance comment, the entry; tm is
\* str(datetime.now()), which has microseconds and differs from call to call
add_mount(tab, f, tm) ==
    [lines |-> tab.lines
               \o (IF tab.nl \/ tab.lines = <<>> THEN <<FBlank>> ELSE <<>>)
               \o <<FCmt(TRUE, tm),
                    FEnt(Strip(f.remote), Strip(f.mountpoint), Strip(f.fstype),
                         mount_options(f))>>,
     nl |-> TRUE]


\* CifsMount, lines 86-96
CifsMount(r, m, ty, os, cf, im) ==
    [remote |-> r, mountpoint |-> m, fstype |-> ty, options |-> os,
     credentials_file |-> cf, is_mounted |-> im]

\* the file-system types both listings accept
NetTypes == {"cifs", "smb", "smb3", "smb2", "smbfs"}

\* /proc/mounts: one line, split into its fields
ProcLine(dev, m, ty) == <<dev, m, ty, "rw", "0", "0">>

\* a get_active_mounts that takes every mounted file system
get_active_mounts_anytype(pm) == {l[2] : l \in {x \in pm : Len(x) >= 3}}

\* MountManager.get_active_mounts: the keys of the dictionary `active`
get_active_mounts(pm) ==
    {l[2] : l \in {x \in pm : Len(x) >= 3 /\ Lower(x[3]) \in NetTypes}}

\* str.split() of one field of an fstab line, over the universe of values
Words(s) ==
    CASE s = ""              -> <<>>
      [] s = "//srv/My Docs" -> <<"//srv/My", "Docs">>
      [] OTHER               -> <<s>>

\* a word of line.split(); the options string is kept as its list of options
Word(s)   == [s |-> s, isopts |-> FALSE, os |-> <<>>]
OptsWord(os) == [s |-> "", isopts |-> TRUE, os |-> os]
WordsOf(s) == [j \in 1..Len(Words(s)) |-> Word(Words(s)[j])]

\* line.split() of an entry line "remote\tmountpoint\tfstype\toptions\t0 0"
split(l) ==
    WordsOf(l.remote) \o WordsOf(l.mp) \o WordsOf(l.fstype)
        \o (IF l.opts = <<>> THEN <<>> ELSE <<OptsWord(l.opts)>>)
        \o <<Word("0"), Word("0")>>

\* parts[3].split(',') when parts[3] is some word of the line
opts_of(w) == IF w.isopts THEN w.os ELSE <<O(w.s)>>

\* lines 1528-1533: the value of the first option that starts with credentials=
credentials_of(os) ==
    IF \E j \in 1..Len(os) : os[j].o = "credentials"
    THEN os[CHOOSE j \in 1..Len(os) :
               /\ os[j].o = "credentials"
               /\ \A q \in 1..(j - 1) : os[q].o # "credentials"].v
    ELSE None

\* the body of the loop of get_fstab_mounts for one line: the mounts it appends
fstab_mount(l, active) ==
    IF l.k # "ent" THEN <<>>
    ELSE LET parts == split(l) IN
         IF Len(parts) >= 4 /\ ~parts[3].isopts /\ Lower(parts[3].s) \in NetTypes
         THEN <<CifsMount(parts[1].s, parts[2].s, parts[3].s, opts_of(parts[4]),
                          credentials_of(opts_of(parts[4])),
                          parts[2].s \in active)>>
         ELSE <<>>

\* MountManager.get_fstab_mounts over the mount table and /proc/mounts
RECURSIVE fstab_mounts_from(_, _)
fstab_mounts_from(lines, active) ==
    IF lines = <<>> THEN <<>>
    ELSE fstab_mount(Head(lines), active) \o fstab_mounts_from(Tail(lines), active)

get_fstab_mounts(tab, pm) == fstab_mounts_from(tab.lines, get_active_mounts(pm))

\* ------------------------------------------------------------ request.form
NoForm == [action |-> "", share_name |-> "", path |-> "", comment |-> "",
           writable |-> "yes", guest_ok |-> "no", valid_users |-> "",
           remote |-> "", mountpoint |-> "", fstype |-> "cifs",
           mount_username |-> "", mount_password |-> "", options |-> <<>>,
           username |-> "", password |-> "", password2 |-> "", method |-> "POST"]

AddShareForm(n, pth, cm, wr) ==
    [NoForm EXCEPT !.action = "add_share", !.share_name = n, !.path = pth,
                   !.comment = cm, !.writable = wr]

DeleteShareForm(n) == [NoForm EXCEPT !.action = "delete_share", !.share_name = n]

AddMountForm(r, m, u, pw, os) ==
    [NoForm EXCEPT !.action = "add_mount", !.remote = r, !.mountpoint = m,
                   !.mount_username = u, !.mount_password = pw, !.options = os]

DeleteMountForm(m) == [NoForm EXCEPT !.action = "delete_mount", !.mountpoint = m]

\* the submissions explored
ShareForms ==
    {AddShareForm(n, "/srv/docs", "", "yes") :
        n \in {" docs ", "Docs", "pub", "global", "Global", "DEFAULT", "  "}}
    \cup {AddShareForm("pub", "", "", "yes"), AddShareForm("pub", "/srv/pub", "team", "no"),
          AddShareForm("Docs", "/srv/docs", "dflt", "yes")}
    \cup {DeleteShareForm(n) : n \in {"docs", "Docs", "pub", "global", ""}}

MountForms ==
    {AddMountForm("//srv/share", m, "", "", <<>>) : m \in {"/mnt/x", "/mnt/xy", "/srv", ""}}
    \cup {AddMountForm("//srv/share", " /mnt/x ", "u", "p", <<O("rw")>>),
          AddMountForm("", "/mnt/x", "", "", <<>>),
          AddMountForm("//srv/share", "/mnt/x", "u", "", <<>>),
          AddMountForm("//srv/share", "/mnt/x", "", "", <<O("nofail")>>),
          AddMountForm("//srv/share", "/mnt/x", "", "", <<O("_netdev")>>),
          AddMountForm("//srv/share", "/netdev", "u", "p", <<>>),
          AddMountForm("//srv/My Docs", "/mnt/x", "u", "p", <<>>),
          [AddMountForm("//srv/share", "/mnt/x", "", "", <<>>) EXCEPT !.fstype = "CIFS"],
          [AddMountForm("//srv/share", "/mnt/x", "", "", <<>>) EXCEPT !.fstype = "nfs"]}
    \cup {DeleteMountForm(m) : m \in {"/mnt/x", "/mnt/xy", "/srv", "/", ""}}

AddUserForm(u, pw, pw2) ==
    [NoForm EXCEPT !.action = "add_user", !.username = u, !.password = pw,
                   !.password2 = pw2]

\* a form that carries the action and at most a user name or a mount point
ActionForm(a, u, m) == [NoForm EXCEPT !.action = a, !.username = u, !.mountpoint = m]

\* the same submission sent with GET
AsGet(f) == [f EXCEPT !.method = "GET"]

SystemForms ==
    {AddUserForm("alice", "pw", "pw"), AddUserForm("alice", "pw", "px"),
     AddUserForm("", "pw", "pw"), AddUserForm("alice", "", "")}
    \cup {ActionForm("delete_user", u, "") : u \in {"alice", ""}}
    \cup {ActionForm(a, "", m) : a \in {"mount", "umount"}, m \in {"/mnt/x", ""}}
    \cup {ActionForm(a, "", "") : a \in {"apply_mounts", "restart_smbd", "backup_config",
                                         "test_config", "restart_service", ""}}
    \cup {AsGet(NoForm), AsGet(ActionForm("delete_user", "alice", "")),
          AsGet(ActionForm("backup_config", "", "")),
          AsGet(DeleteMountForm("/mnt/x"))}

\* submissions to both stores
StoreForms ==
    {AddShareForm("pub", "/srv/pub", "team", "no"), DeleteShareForm("docs"),
     AddMountForm("//srv/share", "/mnt/x", "u", "p", <<>>),
     AddMountForm("//srv/share", "/mnt/xy", "", "", <<>>),
     DeleteMountForm("/mnt/x"), DeleteMountForm("/srv")}

\* line 1768: the SambaShare built from the form
form_share(f) ==
    SambaShare(Strip(f.share_name), Strip(f.path), Strip(f.comment),
               f.writable = "yes", TRUE, f.guest_ok = "yes", Strip(f.valid_users),
               "0664", "0775")

\* ------------------------------------------------------------ initial files
ConfGlobalOnly == <<Hdr("global"), Key("workgroup", "WG", FALSE)>>
ConfDocs       == <<Cmt, Hdr("global"), Key("workgroup", "WG", FALSE), Blank,
                    Hdr("docs"), Key("Path", "/srv/docs", FALSE),
                    Key("read only", "no", TRUE)>>
ConfDuplicate  == <<Hdr("docs"), Key("path", "/srv/docs", TRUE),
                    Hdr("pub"), Key("path", "/srv/pub", TRUE), Key("writable", "no", TRUE),
                    Key("browseable", "Yes", TRUE),
                    Hdr("docs"), Key("comment", "team", TRUE)>>
ConfNoValue    == <<Hdr("global"), Hdr("docs"), Key("path", "/srv/docs", TRUE),
                    Key("writable", None, FALSE)>>
ConfNoHeader   == <<Key("workgroup", "WG", FALSE), Hdr("docs"),
                    Key("path", "/srv/docs", TRUE)>>
ConfDefault    == <<Hdr("DEFAULT"), Key("comment", "dflt", TRUE),
                    Hdr("Global"), Hdr("docs"), Key("path", "/srv/docs", TRUE),
                    Hdr("pub"), Key("path", None, FALSE)>>

InitConfs ==
    {[exists |-> TRUE, lines |-> l] :
        l \in {ConfGlobalOnly, ConfDocs, ConfDuplicate, ConfNoValue, ConfNoHeader,
               ConfDefault}}
    \cup {[exists |-> FALSE, lines |-> <<>>]}

RootEntry == FEnt("UUID=1", "/", "ext4", <<O("defaults")>>)

InitFstabs ==
    {[lines |-> <<>>, nl |-> TRUE],
     [lines |-> <<RootEntry>>, nl |-> TRUE],
     [lines |-> <<FCmt(FALSE, 0), RootEntry>>, nl |-> FALSE],
     [lines |-> <<RootEntry,
                  FBlank, FCmt(TRUE, -2),
                  FEnt("//srv/share", "/mnt/xy", "cifs", <<O("_netdev"), O("nofail")>>),
                  FBlank, FCmt(TRUE, -1),
                  FEnt("//srv/share", "/mnt/x", "cifs", <<O("_netdev"), O("nofail")>>)>>,
      nl |-> TRUE]}

NoParser == [ok |-> FALSE, defaults |-> <<>>, sections |-> <<>>]
NoResp   == [code |-> 0, cat |-> "", err |-> ""]
NoBuf    == [lines |-> <<>>, nl |-> TRUE]

\* flash(message, category) followed by the redirect of line 1882
Flash(c, e) == [code |-> 302, cat |-> c, err |-> e]
\* the redirect of line 1882 with no message flashed
Redirect  == [code |-> 302, cat |-> "", err |-> ""]
\* render_template_string, lines 1885-1893
Rendered  == [code |-> 200, cat |-> "", err |-> ""]
\* an exception leaves index(): Flask answers 500
Unhandled == [code |-> 500, cat |-> "", err |-> "Unhandled"]

\* one subprocess.run call; rc = -1 stands for a call that raised
run(cmd, arg, rc) == [cmd |-> cmd, arg |-> arg, rc |-> rc]
Rcs == {0, 1, -1}

\* the tools run while the page data is collected (get_users, get_system_info)
PageTools == <<run("pdbedit -L -v", "", 0), run("hostname", "", 0),
               run("systemctl is-active smbd", "", 0)>>

\* the tools that only report
ReadingTools == {"pdbedit -L -v", "hostname", "systemctl is-active smbd", "id",
                 "testparm -s"}

\* the contents /proc/mounts takes
ProcStates ==
    {{},
     {ProcLine("/dev/sda1", "/", "ext4"), ProcLine("//srv/share", "/mnt/x", "cifs")},
     {ProcLine("/dev/sda1", "/", "ext4"), ProcLine("/dev/sdb1", "/mnt/x", "ext4"),
      ProcLine("//srv/share", "/mnt/xy", "smb3")}}

\* line 1918
ports == <<5000, 5001, 5050, 8000>>
\* the server runs on the first port
Serving == [pc |-> "serving", tried |-> <<5000>>, ran |-> TRUE, status |-> 0]

InitRest ==
    /\ now = 0
    /\ nreq = 0
    /\ backups = {}
    /\ fstabBak = [exists |-> FALSE, lines |-> <<>>, nl |-> TRUE]
    /\ creds = {}
    /\ pc = [i \in Reqs |-> "idle"]
    /\ form = [i \in Reqs |-> NoForm]
    /\ parser = [i \in Reqs |-> NoParser]
    /\ shares = [i \in Reqs |-> <<>>]
    /\ mounts = [i \in Reqs |-> <<>>]
    /\ buf = [i \in Reqs |-> NoBuf]
    /\ resp = [i \in Reqs |-> NoResp]
    /\ mutConf = <<>>
    /\ mutFstab = <<>>
    /\ tools = <<>>
    /\ procMounts = {}

\* the server is up and no request has arrived
Init ==
    /\ conf \in InitConfs
    /\ fstab \in InitFstabs
    /\ boot = Serving
    /\ InitRest

\* ----------------------------------------------------------------- actions
\* the wall clock advances by a second
Tick ==
    /\ now < MaxTime
    /\ now' = now + 1
    /\ UNCHANGED <<nreq, conf, backups, fstab, fstabBak, creds,
                   pc, form, parser, shares, mounts, buf, resp, mutConf, mutFstab>>
    /\ UNCHANGED <<tools, procMounts, boot>>

\* index(), lines 1742-1764: a request arrives; the configuration is loaded
\* and shares, users, mounts and system information are listed before the
\* method and the action are looked at.  A get_shares that raises ends the
\* request with an unhandled exception (HTTP 500).
Begin(i, F) ==
    /\ pc[i] \in {"idle", "done"}
    /\ nreq < MaxReqs
    /\ \E f \in F :
         LET p == load(conf) IN
         /\ form' = [form EXCEPT ![i] = f]
         /\ parser' = [parser EXCEPT ![i] = p]
         /\ buf' = [buf EXCEPT ![i] = NoBuf]
         /\ IF get_shares_raises(p)
            THEN /\ shares' = [shares EXCEPT ![i] = <<>>]
                 /\ mounts' = [mounts EXCEPT ![i] = <<>>]
                 /\ resp' = [resp EXCEPT ![i] = Unhandled]
                 /\ pc' = [pc EXCEPT ![i] = "done"]
                 /\ UNCHANGED tools
            ELSE /\ shares' = [shares EXCEPT ![i] = get_shares(p)]
                 /\ mounts' = [mounts EXCEPT ![i] = get_fstab_mounts(fstab, procMounts)]
                 /\ resp' = [resp EXCEPT ![i] = NoResp]
                 /\ pc' = [pc EXCEPT ![i] = "loaded"]
                 /\ tools' = tools \o PageTools
    /\ nreq' = nreq + 1
    /\ UNCHANGED <<now, conf, backups, fstab, fstabBak, creds, mutConf, mutFstab>>
    /\ UNCHANGED <<procMounts, boot>>

\* an index() that takes the action branches whatever the method
IsPost_any(f) == TRUE

\* line 1762: if request.method == 'POST'
IsPost(f) == f.method = "POST"

\* the branch of index() a loaded request takes
Dispatch(f) == IF IsPost(f) THEN f.action ELSE "GET"

Finish(i, r) ==
    /\ resp' = [resp EXCEPT ![i] = r]
    /\ pc' = [pc EXCEPT ![i] = "done"]

\* a save() that goes on to the write without having copied the file
create_backup_skip(i, ok) == ok /\ UNCHANGED backups

\* SambaConfig.create_backup inside save(): nothing to copy when the file is
\* absent; otherwise shutil.copy2 to smb.conf.<timestamp>.bak, which replaces a
\* backup of the same second and may raise.  ok = save() goes on to the write.
create_backup(i, ok) ==
    IF ~conf.exists
    THEN /\ ok
         /\ UNCHANGED backups
    ELSE IF ok
    THEN backups' = {b \in backups : b.ts # now} \cup {[ts |-> now, lines |-> conf.lines]}
    ELSE UNCHANGED backups

\* the add_share branch of index(), lines 1767-1790, up to the backup of save()
AddShare(i) ==
    /\ pc[i] = "loaded"
    /\ Dispatch(form[i]) = "add_share"
    /\ LET sh == form_share(form[i])
           r  == add_share(parser[i], sh)
       IN
       IF sh.name = "" \/ sh.path = ""
       THEN Finish(i, Flash("danger", "Validation")) /\ UNCHANGED <<parser, backups>>
       ELSE \E mkdirOk \in BOOLEAN, copyOk \in BOOLEAN :
         IF ~mkdirOk
         THEN Finish(i, Flash("danger", "Mkdir")) /\ UNCHANGED <<parser, backups>>
         ELSE IF ~r.ok
         THEN Finish(i, Flash("danger", r.err)) /\ UNCHANGED <<parser, backups>>
         ELSE /\ parser' = [parser EXCEPT ![i] = r.parser]
              /\ create_backup(i, copyOk)
              /\ IF copyOk
                 THEN pc' = [pc EXCEPT ![i] = "saving"] /\ UNCHANGED resp
                 ELSE Finish(i, Flash("danger", "SaveFailed"))
    /\ UNCHANGED <<now, nreq, conf, fstab, fstabBak, creds, form, shares, mounts, buf,
                   mutConf, mutFstab>>
    /\ UNCHANGED <<tools, procMounts, boot>>

\* the delete_share branch of index(), lines 1792-1797, up to the backup of save()
DeleteShare(i) ==
    /\ pc[i] = "loaded"
    /\ Dispatch(form[i]) = "delete_share"
    /\ LET r == delete_share(parser[i], Strip(form[i].share_name)) IN
       IF ~r.ok
       THEN Finish(i, Flash("danger", r.err)) /\ UNCHANGED <<parser, backups>>
       ELSE \E copyOk \in BOOLEAN :
              /\ parser' = [parser EXCEPT ![i] = r.parser]
              /\ create_backup(i, copyOk)
              /\ IF copyOk
                 THEN pc' = [pc EXCEPT ![i] = "saving"] /\ UNCHANGED resp
                 ELSE Finish(i, Flash("danger", "SaveFailed"))
    /\ UNCHANGED <<now, nreq, conf, fstab, fstabBak, creds, form, shares, mounts, buf,
                   mutConf, mutFstab>>
    /\ UNCHANGED <<tools, procMounts, boot>>

\* a save() that loads the file again and applies only its own change to it
WriteConf_merge(i) ==
    /\ pc[i] = "saving"
    /\ LET cur == load(conf)
           n   == Strip(form[i].share_name)
           merged ==
              IF form[i].action = "add_share"
              THEN IF has_section(cur, n) THEN cur
                   ELSE [cur EXCEPT !.sections =
                           Append(@, [name |-> n,
                                      opts |-> share_opts(form_share(form[i]))])]
              ELSE [cur EXCEPT !.sections = SelectSeq(@, LAMBDA sc : sc.name # n)]
       IN  conf' = [exists |-> TRUE, lines |-> write(merged)]
    /\ mutConf' = Append(mutConf, [f |-> form[i], pre |-> conf])
    /\ Finish(i, Flash("success", ""))
    /\ UNCHANGED <<now, nreq, backups, fstab, fstabBak, creds, form, parser, shares, mounts,
                   buf, mutFstab>>
    /\ UNCHANGED <<tools, procMounts, boot>>

\* save(), lines 1285-1287: the whole file is rewritten from the parser
WriteConf(i) ==
    /\ pc[i] = "saving"
    /\ conf' = [exists |-> TRUE, lines |-> write(parser[i])]
    /\ mutConf' = Append(mutConf, [f |-> form[i], pre |-> conf])
    /\ Finish(i, Flash("success", ""))
    /\ UNCHANGED <<now, nreq, backups, fstab, fstabBak, creds, form, parser, shares, mounts,
                   buf, mutFstab>>
    /\ UNCHANGED <<tools, procMounts, boot>>

\* the add_mount branch of index(), lines 1819-1833, and add_mount up to the
\* write of the credentials file (lines 1550-1561)
AddMount(i) ==
    /\ pc[i] = "loaded"
    /\ Dispatch(form[i]) = "add_mount"
    /\ LET f == form[i] IN
       IF Strip(f.remote) = "" \/ Strip(f.mountpoint) = ""
       THEN Finish(i, Flash("danger", "Validation")) /\ UNCHANGED creds
       ELSE \E mkdirOk \in BOOLEAN :
         IF ~mkdirOk
         THEN Finish(i, Flash("danger", "Exception")) /\ UNCHANGED creds
         ELSE IF UsesCreds(f)
         THEN LET path == creds_file(Strip(f.mountpoint))
                  old  == {c \in creds : c.path = path}
              IN  \* open(creds_file, 'w'): a new file gets the mode the
                  \* umask of the process leaves (0644 under 022, 0600
                  \* under 077), an existing one keeps its mode
                  /\ \E created \in {"0644", "0600"} :
                        creds' = (creds \ old) \cup
                          {[path |-> path, user |-> Strip(f.mount_username),
                            pass |-> Strip(f.mount_password),
                            mode |-> IF old = {} THEN created
                                     ELSE (CHOOSE c \in old : TRUE).mode]}
                  /\ pc' = [pc EXCEPT ![i] = "am_chmod"]
                  /\ UNCHANGED resp
         ELSE /\ pc' = [pc EXCEPT ![i] = "am_backup"]
              /\ UNCHANGED <<creds, resp>>
    /\ UNCHANGED <<now, nreq, conf, backups, fstab, fstabBak, form, parser, shares, mounts,
                   buf, mutConf, mutFstab>>
    /\ UNCHANGED <<tools, procMounts, boot>>

\* add_mount, line 1563: os.chmod(creds_file, 0o600)
AddMountChmod(i) ==
    /\ pc[i] = "am_chmod"
    /\ creds' = {IF c.path = creds_file(Strip(form[i].mountpoint))
                 THEN [c EXCEPT !.mode = "0600"] ELSE c : c \in creds}
    /\ pc' = [pc EXCEPT ![i] = "am_backup"]
    /\ UNCHANGED <<now, nreq, conf, backups, fstab, fstabBak, form, parser, shares, mounts,
                   buf, resp, mutConf, mutFstab>>
    /\ UNCHANGED <<tools, procMounts, boot>>

\* shutil.copy2(FSTAB, f"{FSTAB}.bak"), lines 1578 and 1595: one backup file,
\* replaced by every copy; the copy may raise
fstab_backup(i, ok, next) ==
    IF ok
    THEN /\ fstabBak' = [exists |-> TRUE, lines |-> fstab.lines, nl |-> fstab.nl]
         /\ pc' = [pc EXCEPT ![i] = next]
         /\ UNCHANGED resp
    ELSE /\ UNCHANGED fstabBak
         /\ Finish(i, Flash("danger", "Exception"))

AddMountBackup(i) ==
    /\ pc[i] = "am_backup"
    /\ \E copyOk \in BOOLEAN : fstab_backup(i, copyOk, "am_append")
    /\ UNCHANGED <<now, nreq, conf, backups, fstab, creds, form, parser, shares, mounts,
                   buf, mutConf, mutFstab>>
    /\ UNCHANGED <<tools, procMounts, boot>>

\* add_mount, lines 1581-1585: the append
AddMountAppend(i) ==
    /\ pc[i] = "am_append"
    /\ fstab' = add_mount(fstab, form[i], Len(mutFstab) + 1)
    /\ mutFstab' = Append(mutFstab, [f |-> form[i], pre |-> fstab])
    /\ Finish(i, Flash("success", ""))
    /\ UNCHANGED <<now, nreq, conf, backups, fstabBak, creds, form, parser, shares, mounts,
                   buf, mutConf>>
    /\ UNCHANGED <<tools, procMounts, boot>>

\* the delete_mount branch of index(), lines 1835-1838, and the backup of
\* delete_mount
DeleteMount(i) ==
    /\ pc[i] = "loaded"
    /\ Dispatch(form[i]) = "delete_mount"
    /\ \E copyOk \in BOOLEAN : fstab_backup(i, copyOk, "dm_read")
    /\ UNCHANGED <<now, nreq, conf, backups, fstab, creds, form, parser, shares, mounts,
                   buf, mutConf, mutFstab>>
    /\ UNCHANGED <<tools, procMounts, boot>>

\* delete_mount, lines 1598-1599: lines = f.readlines()
DeleteMountRead(i) ==
    /\ pc[i] = "dm_read"
    /\ buf' = [buf EXCEPT ![i] = fstab]
    /\ pc' = [pc EXCEPT ![i] = "dm_write"]
    /\ UNCHANGED <<now, nreq, conf, backups, fstab, fstabBak, creds, form, parser,
                   shares, mounts, resp, mutConf, mutFstab>>
    /\ UNCHANGED <<tools, procMounts, boot>>

\* delete_mount, lines 1602-1613: the file is rewritten from the lines read
DeleteMountWrite(i) ==
    /\ pc[i] = "dm_write"
    /\ fstab' = delete_mount(buf[i], Strip(form[i].mountpoint))
    /\ mutFstab' = Append(mutFstab, [f |-> form[i], pre |-> fstab])
    /\ Finish(i, Flash("success", ""))
    /\ UNCHANGED <<now, nreq, conf, backups, fstabBak, creds, form, parser, shares, mounts,
                   buf, mutConf>>
    /\ UNCHANGED <<tools, procMounts, boot>>

\* SambaUserManager.add_user, lines 1429-1465: id, then useradd when id fails,
\* then smbpasswd -a through bash; r1, r2, r3 are the outcomes of the three calls
add_user(u, r1, r2, r3) ==
    IF r1 = -1 THEN [ok |-> FALSE, err |-> "Exception", calls |-> <<run("id", u, r1)>>]
    ELSE IF r1 # 0 /\ r2 = -1
      THEN [ok |-> FALSE, err |-> "Exception",
            calls |-> <<run("id", u, r1), run("useradd", u, r2)>>]
    ELSE IF r1 # 0 /\ r2 # 0
      THEN [ok |-> FALSE, err |-> "UseraddFailed",
            calls |-> <<run("id", u, r1), run("useradd", u, r2)>>]
    ELSE [ok |-> r3 = 0,
          err |-> IF r3 = 0 THEN "" ELSE IF r3 = -1 THEN "Exception" ELSE "SmbpasswdFailed",
          calls |-> <<run("id", u, r1)>>
                    \o (IF r1 # 0 THEN <<run("useradd", u, r2)>> ELSE <<>>)
                    \o <<run("bash -c smbpasswd -a -s", u, r3)>>]

\* a method that runs its tool a second time when the first run fails
tool_result_retry(cmd, arg, rc) ==
    [ok |-> rc = 0,
     err |-> IF rc = 0 THEN "" ELSE IF rc = -1 THEN "Exception" ELSE "ToolFailed",
     calls |-> IF rc = 0 THEN <<run(cmd, arg, rc)>>
               ELSE <<run(cmd, arg, rc), run(cmd, arg, rc)>>]

\* the result of a method that runs one tool and returns (returncode == 0, message)
tool_result(cmd, arg, rc) ==
    [ok |-> rc = 0,
     err |-> IF rc = 0 THEN "" ELSE IF rc = -1 THEN "Exception" ELSE "ToolFailed",
     calls |-> <<run(cmd, arg, rc)>>]

\* SambaUserManager.delete_user, lines 1467-1484
delete_user(u, rc) == tool_result("smbpasswd -x", u, rc)

\* MountManager.mount, lines 1618-1638: mkdir of the mount point, then mount
mount(m, mkdirOk, rc) ==
    IF ~mkdirOk THEN [ok |-> FALSE, err |-> "Exception", calls |-> <<>>]
    ELSE tool_result("mount", m, rc)

\* MountManager.umount, lines 1640-1657
umount(m, rc) == tool_result("umount", m, rc)

\* SystemManager.restart_smbd, lines 1698-1714
restart_smbd(rc) == tool_result("systemctl restart smbd", "", rc)

\* SystemManager.test_config, lines 1716-1731
test_config(rc) == tool_result("testparm -s", "", rc)

\* flash(message, 'success' if success else 'danger') for a result r
FlashResult(i, r) ==
    /\ tools' = tools \o r.calls
    /\ Finish(i, Flash(IF r.ok THEN "success" ELSE "danger", r.err))

\* the add_user branch of index(), lines 1800-1811
AddUser(i) ==
    /\ pc[i] = "loaded"
    /\ Dispatch(form[i]) = "add_user"
    /\ LET u  == Strip(form[i].username)
           pw == Strip(form[i].password)
       IN
       IF u = "" \/ pw = ""
       THEN Finish(i, Flash("danger", "Validation")) /\ UNCHANGED tools
       ELSE IF pw # Strip(form[i].password2)
       THEN Finish(i, Flash("danger", "Mismatch")) /\ UNCHANGED tools
       ELSE \E r1 \in Rcs, r2 \in Rcs, r3 \in Rcs : FlashResult(i, add_user(u, r1, r2, r3))
    /\ UNCHANGED <<now, nreq, conf, backups, fstab, fstabBak, creds, form, parser, shares,
                   mounts, buf, mutConf, mutFstab>>
    /\ UNCHANGED <<procMounts, boot>>

\* the delete_user branch of index(), lines 1813-1816
DeleteUser(i) ==
    /\ pc[i] = "loaded"
    /\ Dispatch(form[i]) = "delete_user"
    /\ \E rc \in Rcs : FlashResult(i, delete_user(Strip(form[i].username), rc))
    /\ UNCHANGED <<now, nreq, conf, backups, fstab, fstabBak, creds, form, parser, shares,
                   mounts, buf, mutConf, mutFstab>>
    /\ UNCHANGED <<procMounts, boot>>

\* the mount branch of index(), lines 1840-1843
Mount(i) ==
    /\ pc[i] = "loaded"
    /\ Dispatch(form[i]) = "mount"
    /\ \E mkdirOk \in BOOLEAN, rc \in Rcs :
          FlashResult(i, mount(Strip(form[i].mountpoint), mkdirOk, rc))
    /\ UNCHANGED <<now, nreq, conf, backups, fstab, fstabBak, creds, form, parser, shares,
                   mounts, buf, mutConf, mutFstab>>
    /\ UNCHANGED <<procMounts, boot>>

\* the umount branch of index(), lines 1845-1848
Umount(i) ==
    /\ pc[i] = "loaded"
    /\ Dispatch(form[i]) = "umount"
    /\ \E rc \in Rcs : FlashResult(i, umount(Strip(form[i].mountpoint), rc))
    /\ UNCHANGED <<now, nreq, conf, backups, fstab, fstabBak, creds, form, parser, shares,
                   mounts, buf, mutConf, mutFstab>>
    /\ UNCHANGED <<procMounts, boot>>

\* the apply_mounts branch of index(), lines 1851-1864: mount -a
ApplyMounts(i) ==
    /\ pc[i] = "loaded"
    /\ Dispatch(form[i]) = "apply_mounts"
    /\ \E rc \in Rcs : FlashResult(i, tool_result("mount -a", "", rc))
    /\ UNCHANGED <<now, nreq, conf, backups, fstab, fstabBak, creds, form, parser, shares,
                   mounts, buf, mutConf, mutFstab>>
    /\ UNCHANGED <<procMounts, boot>>

\* the restart_smbd branch of index(), lines 1866-1868
RestartSmbd(i) ==
    /\ pc[i] = "loaded"
    /\ Dispatch(form[i]) = "restart_smbd"
    /\ \E rc \in Rcs : FlashResult(i, restart_smbd(rc))
    /\ UNCHANGED <<now, nreq, conf, backups, fstab, fstabBak, creds, form, parser, shares,
                   mounts, buf, mutConf, mutFstab>>
    /\ UNCHANGED <<procMounts, boot>>

\* the test_config branch of index(), lines 1877-1879
TestConfig(i) ==
    /\ pc[i] = "loaded"
    /\ Dispatch(form[i]) = "test_config"
    /\ \E rc \in Rcs : FlashResult(i, test_config(rc))
    /\ UNCHANGED <<now, nreq, conf, backups, fstab, fstabBak, creds, form, parser, shares,
                   mounts, buf, mutConf, mutFstab>>
    /\ UNCHANGED <<procMounts, boot>>

\* the backup_config branch of index(), lines 1870-1875: create_backup is called
\* outside any try; a copy that raises leaves index() as an exception
BackupConfig(i) ==
    /\ pc[i] = "loaded"
    /\ Dispatch(form[i]) = "backup_config"
    /\ \E copyOk \in BOOLEAN :
          /\ create_backup(i, copyOk)
          /\ IF ~conf.exists THEN Finish(i, Flash("danger", "BackupFailed"))
             ELSE IF copyOk THEN Finish(i, Flash("success", ""))
             ELSE Finish(i, Unhandled)
    /\ UNCHANGED <<now, nreq, conf, fstab, fstabBak, creds, form, parser, shares,
                   mounts, buf, mutConf, mutFstab>>
    /\ UNCHANGED <<tools, procMounts, boot>>

\* the discriminators index() has a branch for
KnownActions == {"add_share", "delete_share", "add_user", "delete_user", "add_mount",
                 "delete_mount", "mount", "umount", "apply_mounts", "restart_smbd",
                 "backup_config", "test_config"}

\* a POST whose action matches no branch: line 1882, the redirect alone
UnknownAction(i) ==
    /\ pc[i] = "loaded"
    /\ IsPost(form[i])
    /\ form[i].action \notin KnownActions
    /\ Finish(i, Redirect)
    /\ UNCHANGED <<now, nreq, conf, backups, fstab, fstabBak, creds, form, parser, shares,
                   mounts, buf, mutConf, mutFstab>>
    /\ UNCHANGED <<tools, procMounts, boot>>

\* a request that is not a POST: lines 1885-1893, the page is rendered
Render(i) ==
    /\ pc[i] = "loaded"
    /\ Dispatch(form[i]) = "GET"
    /\ Finish(i, Rendered)
    /\ UNCHANGED <<now, nreq, conf, backups, fstab, fstabBak, creds, form, parser, shares,
                   mounts, buf, mutConf, mutFstab>>
    /\ UNCHANGED <<tools, procMounts, boot>>

\* the kernel's mount table changes (a mount or umount took effect)
Kernel ==
    /\ \E pm \in ProcStates : procMounts' = pm
    /\ procMounts' # procMounts
    /\ UNCHANGED <<now, nreq, conf, backups, fstab, fstabBak, creds, pc, form, parser,
                   shares, mounts, buf, resp, mutConf, mutFstab, tools, boot>>

\* the __main__ block, lines 1917-1937: app.run on the next port of the list.
\* The call blocks while the server runs; a port that cannot be bound makes
\* it raise OSError, which the loop answers by going on to the next port; any
\* other exception reaches the handler of line 1932, whose call of
\* traceback.print_exc() raises NameError (the module is not imported), so the
\* process ends with status 1 with or without the sys.exit(1) that follows.
TryPort ==
    /\ boot.pc = "loop"
    /\ Len(boot.tried) < Len(ports)
    /\ \E outcome \in {"runs", "OSError", "Exception"} :
          boot' = [pc     |-> CASE outcome = "runs"    -> "serving"
                               [] outcome = "OSError" -> "loop"
                               [] OTHER               -> "exited",
                   tried  |-> Append(boot.tried, ports[Len(boot.tried) + 1]),
                   ran    |-> outcome = "runs",
                   status |-> IF outcome = "Exception" THEN 1 ELSE 0]
    /\ UNCHANGED <<now, nreq, conf, backups, fstab, fstabBak, creds, pc, form, parser,
                   shares, mounts, buf, resp, mutConf, mutFstab, tools, procMounts>>

\* the else clause of the loop, line 1937: the message is printed and the
\* script ends
NoPort ==
    /\ boot.pc = "loop"
    /\ Len(boot.tried) = Len(ports)
    /\ boot' = [boot EXCEPT !.pc = "exited", !.status = 0]
    /\ UNCHANGED <<now, nreq, conf, backups, fstab, fstabBak, creds, pc, form, parser,
                   shares, mounts, buf, resp, mutConf, mutFstab, tools, procMounts>>

\* app.run ends: it returns (break, end of the script), or raises
\* KeyboardInterrupt (sys.exit(0)) or another exception (line 1932)
ServerEnds ==
    /\ boot.pc = "serving"
    /\ \E outcome \in {"returns", "KeyboardInterrupt", "Exception"} :
          boot' = [boot EXCEPT !.pc = "exited",
                               !.status = IF outcome = "Exception" THEN 1 ELSE 0]
    /\ UNCHANGED <<now, nreq, conf, backups, fstab, fstabBak, creds, pc, form, parser,
                   shares, mounts, buf, resp, mutConf, mutFstab, tools, procMounts>>

\* ---------------------------------------------------------- specifications
InitShares == Init /\ fstab = [lines |-> <<RootEntry>>, nl |-> TRUE]
InitMounts == Init /\ conf = [exists |-> TRUE, lines |-> ConfGlobalOnly]

\* one request at a time against the configuration file
NextShares ==
    \/ Tick
    \/ Begin(1, ShareForms)
    \/ AddShare(1)
    \/ DeleteShare(1)
    \/ WriteConf(1)

SpecShares == InitShares /\ [][NextShares]_vars

\* one request at a time against the mount table
NextMounts ==
    \/ Tick
    \/ Begin(1, MountForms)
    \/ AddMount(1)
    \/ AddMountChmod(1)
    \/ AddMountBackup(1)
    \/ AddMountAppend(1)
    \/ DeleteMount(1)
    \/ DeleteMountRead(1)
    \/ DeleteMountWrite(1)

SpecMounts == InitMounts /\ [][NextMounts]_vars

\* one request at a time against users, mounts and the system, and the page
InitSystem ==
    /\ Init
    /\ conf \in {[exists |-> TRUE, lines |-> ConfGlobalOnly],
                 [exists |-> FALSE, lines |-> <<>>]}
    /\ Len(fstab.lines) = 7

NextSystem ==
    \/ Kernel
    \/ Begin(1, SystemForms)
    \/ AddUser(1)
    \/ DeleteUser(1)
    \/ Mount(1)
    \/ Umount(1)
    \/ ApplyMounts(1)
    \/ RestartSmbd(1)
    \/ BackupConfig(1)
    \/ TestConfig(1)
    \/ UnknownAction(1)
    \/ Render(1)

SpecSystem == InitSystem /\ [][NextSystem]_vars

\* one request at a time against either store
CredForms ==
    {AddMountForm("//srv/share", "/mnt/a/b", "u", "p", <<>>),
     AddMountForm("//srv/share", "/mnt/a_b", "v", "q", <<>>),
     AddMountForm("//srv/share", "/mnt/x", "u", "p", <<>>)}

\* one add_mount with credentials at a time
InitCreds ==
    /\ Init
    /\ conf = [exists |-> TRUE, lines |-> ConfGlobalOnly]
    /\ Len(fstab.lines) = 1
NextCreds == \/ Tick \/ Begin(1, CredForms) \/ AddMount(1) \/ AddMountChmod(1)
             \/ AddMountBackup(1) \/ AddMountAppend(1)
SpecCreds == InitCreds /\ [][NextCreds]_vars

InitStores ==
    /\ Init
    /\ conf \in {[exists |-> TRUE, lines |-> ConfDocs], [exists |-> FALSE, lines |-> <<>>]}
    /\ Len(fstab.lines) \in {1, 7}

NextStores ==
    \/ Tick
    \/ Begin(1, StoreForms)
    \/ AddShare(1)
    \/ DeleteShare(1)
    \/ WriteConf(1)
    \/ AddMount(1)
    \/ AddMountChmod(1)
    \/ AddMountBackup(1)
    \/ AddMountAppend(1)
    \/ DeleteMount(1)
    \/ DeleteMountRead(1)
    \/ DeleteMountWrite(1)

SpecStores == InitStores /\ [][NextStores]_vars

\* the process from its start: the port loop, then requests while it serves
Started == [pc |-> "loop", tried |-> <<>>, ran |-> FALSE, status |-> 0]

InitBoot ==
    /\ InitRest
    /\ boot = Started
    /\ conf = [exists |-> TRUE, lines |-> ConfGlobalOnly]
    /\ fstab = [lines |-> <<RootEntry>>, nl |-> TRUE]

NextBoot ==
    \/ TryPort
    \/ NoPort
    \/ ServerEnds
    \/ boot.pc = "serving" /\ Begin(1, SystemForms)
    \/ boot.pc = "serving" /\ Render(1)
    \/ boot.pc = "serving" /\ UnknownAction(1)
    \/ boot.pc = "serving" /\ TestConfig(1)

SpecBoot == InitBoot /\ [][NextBoot]_vars

\* every action of the model
Next == NextShares \/ NextMounts \/ NextSystem \/ NextBoot

Spec == Init /\ [][Next]_vars

RaceMountForms ==
    {AddMountForm("//srv/share", "/mnt/x", "", "", <<>>), DeleteMountForm("/mnt/xy")}

\* two request threads interleave on the mount table
NextMountRace ==
    \/ \E i \in Reqs : Begin(i, RaceMountForms)
    \/ \E i \in Reqs : AddMount(i)
    \/ \E i \in Reqs : AddMountBackup(i)
    \/ \E i \in Reqs : AddMountAppend(i)
    \/ \E i \in Reqs : DeleteMount(i)
    \/ \E i \in Reqs : DeleteMountRead(i)
    \/ \E i \in Reqs : DeleteMountWrite(i)

SpecMountRace == InitMounts /\ [][NextMountRace]_vars

\* two request threads interleave on the configuration file
NextRace ==
    \/ \E i \in Reqs : Begin(i, ShareForms)
    \/ \E i \in Reqs : AddShare(i)
    \/ \E i \in Reqs : DeleteShare(i)
    \/ \E i \in Reqs : WriteConf(i)

SpecRace == InitShares /\ [][NextRace]_vars


\* ------------------------------------------------------------------ claims
\* the section names that occur as headers in the file ([DEFAULT] is not a
\* section to configparser)
FileSections(file) ==
    {file.lines[j].name : j \in {q \in 1..Len(file.lines) : file.lines[q].k = "hdr"}}
        \ {"DEFAULT"}

SubmittedName(f) == Strip(f.share_name)

\* the listing of a fresh load of the file
Listing(file) == get_shares(load(file))
Listed(file, n) == \E j \in 1..Len(Listing(file)) : Listing(file)[j].name = n

\* C1: for every mutation of smb.conf or fstab that succeeded, the content the
\* file had immediately before it is still held by some backup file.
C1_BackupHistoryKept ==
    /\ \A j \in 1..Len(mutConf) :
          mutConf[j].pre.exists =>
             \E b \in backups : b.lines = mutConf[j].pre.lines
    /\ \A j \in 1..Len(mutFstab) :
          /\ fstabBak.exists
          /\ fstabBak.lines = mutFstab[j].pre.lines
          /\ fstabBak.nl = mutFstab[j].pre.nl

\* C2: add_share called with a name that is a section of the (loadable)
\* configuration file answers Conflict and leaves the file as it was.
C2_Called ==
    /\ pc[1] = "loaded"
    /\ form[1].action = "add_share"
    /\ pc'[1] # "loaded"
    /\ resp'[1].err \notin {"Validation", "Mkdir"}

C2_Step ==
    (C2_Called /\ load(conf).ok /\ SubmittedName(form[1]) \in FileSections(conf))
        => /\ pc'[1] = "done"
           /\ resp'[1] = Flash("danger", "Conflict")
           /\ conf' = conf

\* C2: every add_share of a name that is already a section is refused with
\* Conflict and leaves smb.conf byte-identical.
C2_ConflictKeepsFile == [][C2_Step]_vars

C2_Witness ==
    /\ pc[1] = "done"
    /\ form[1].action = "add_share"
    /\ resp[1].err = "Conflict"
    /\ SubmittedName(form[1]) \in FileSections(conf)

\* C3: after a successful add_share of a valid name (one that is not the
\* reserved global section) a fresh load lists a share with that name and
\* path; after a successful delete_share of a name a fresh load lists no share
\* with that name.
C3_AddListDelete ==
    (pc[1] = "done" /\ resp[1].cat = "success") =>
        /\ (form[1].action = "add_share" /\ ~IsGlobal(SubmittedName(form[1]))) =>
              /\ ~get_shares_raises(load(conf))
              /\ \E j \in 1..Len(Listing(conf)) :
                    /\ Listing(conf)[j].name = SubmittedName(form[1])
                    /\ Listing(conf)[j].path = Strip(form[1].path)
        /\ form[1].action = "delete_share" =>
              /\ ~get_shares_raises(load(conf))
              /\ ~Listed(conf, SubmittedName(form[1]))

\* a share was added and then deleted again
C3_Witness ==
    /\ pc[1] = "done"
    /\ resp[1].cat = "success"
    /\ Len(mutConf) >= 2
    /\ mutConf[Len(mutConf) - 1].f.action = "add_share"
    /\ mutConf[Len(mutConf)].f.action = "delete_share"
    /\ SubmittedName(mutConf[Len(mutConf) - 1].f) = SubmittedName(mutConf[Len(mutConf)].f)
    /\ ~Listed(mutConf[Len(mutConf) - 1].pre, SubmittedName(form[1]))
    /\ Listed(mutConf[Len(mutConf)].pre, SubmittedName(form[1]))


\* the file a logged write of smb.conf produced (requests run one at a time)
ConfAfter(j) == IF j < Len(mutConf) THEN mutConf[j + 1].pre ELSE conf

\* the sections of the file that are the global-settings section to Samba and
\* to get_shares (any letter case)
GlobalSections(file) == SelectSeq(load(file).sections, LAMBDA s : IsGlobal(s.name))

\* C4: the section names of the configuration are pairwise distinct, and no
\* add_share creates, replaces or adds keys to a global-settings section,
\* whatever the letter case of the submitted name.
C4_GlobalReserved ==
    /\ \A a, b \in 1..Len(load(conf).sections) :
          load(conf).sections[a].name = load(conf).sections[b].name => a = b
    /\ \A j \in 1..Len(mutConf) :
          mutConf[j].f.action = "add_share" =>
             GlobalSections(ConfAfter(j)) = GlobalSections(mutConf[j].pre)

\* the submitted share is a copy, under another name, of an element of S
IsCopy(f, S) ==
    \E q \in 1..Len(S) : form_share(f) = [S[q] EXCEPT !.name = SubmittedName(f)]

\* C5: S = listing; add_share of a copy of an element of S under a new, valid
\* name; the listing is then S, in order and with unchanged fields, followed by
\* the new entry.
C5_RoundTrip ==
    \A j \in 1..Len(mutConf) :
       LET f == mutConf[j].f
           S == Listing(mutConf[j].pre)
       IN  ( /\ f.action = "add_share"
             /\ ~get_shares_raises(load(mutConf[j].pre))
             /\ IsCopy(f, S)
             /\ ~Listed(mutConf[j].pre, SubmittedName(f))
             /\ ~IsGlobal(SubmittedName(f)) )
           => /\ ~get_shares_raises(load(ConfAfter(j)))
              /\ Listing(ConfAfter(j)) = Append(S, form_share(f))

\* a copy was added to a configuration that lists two shares
C5_Witness ==
    /\ pc[1] = "done"
    /\ resp[1].cat = "success"
    /\ form[1].action = "add_share"
    /\ Len(mutConf) >= 1
    /\ mutConf[Len(mutConf)].f = form[1]
    /\ IsCopy(form[1], Listing(mutConf[Len(mutConf)].pre))
    /\ Len(Listing(mutConf[Len(mutConf)].pre)) >= 2
    /\ Len(Listing(conf)) = Len(Listing(mutConf[Len(mutConf)].pre)) + 1

\* the (lower-cased) keys the file gives under the headers of section n
HeaderOf(file, q) ==
    LET hs == {h \in 1..q : file.lines[h].k = "hdr"}
    IN  IF hs = {} THEN "" ELSE file.lines[CHOOSE h \in hs : \A g \in hs : g <= h].name

FileKeys(file, n) ==
    {Lower(file.lines[q].key) :
        q \in {r \in 1..Len(file.lines) :
                  file.lines[r].k = "key" /\ HeaderOf(file, r) = n}}

DefaultsFor(file, sh) ==
    LET ks == FileKeys(file, sh.name) IN
    /\ "path" \notin ks => sh.path = ""
    /\ "comment" \notin ks => sh.comment = ""
    /\ "writable" \notin ks => sh.writable = TRUE
    /\ "browseable" \notin ks => sh.browseable = TRUE
    /\ "guest ok" \notin ks => sh.guest_ok = FALSE
    /\ "valid users" \notin ks => sh.valid_users = ""
    /\ "create mask" \notin ks => sh.create_mask = "0664"
    /\ "directory mask" \notin ks => sh.directory_mask = "0775"

\* C6: get_shares returns one SambaShare for every section of the file other
\* than the global one and no other, with the documented default in every
\* field the section does not give.
C6_ListShares ==
    (conf.exists /\ load(conf).ok) =>
        /\ ~get_shares_raises(load(conf))
        /\ {Listing(conf)[j].name : j \in 1..Len(Listing(conf))}
              = {n \in FileSections(conf) : ~IsGlobal(n)}
        /\ Len(Listing(conf)) = Cardinality({n \in FileSections(conf) : ~IsGlobal(n)})
        /\ \A j \in 1..Len(Listing(conf)) : DefaultsFor(conf, Listing(conf)[j])

\* C7: delete_share of a name that is no section of the file answers NotFound
\* and changes neither the file nor the backups; of a name that is a section
\* it is not refused, and its write leaves the configuration with exactly that
\* section removed, every other section and key as before.
C7_Step ==
    /\ (pc[1] = "loaded" /\ form[1].action = "delete_share" /\ pc'[1] # "loaded") =>
          /\ SubmittedName(form[1]) \notin FileSections(conf) =>
                /\ resp'[1] = Flash("danger", "NotFound")
                /\ conf' = conf
                /\ backups' = backups
          /\ (SubmittedName(form[1]) \in FileSections(conf) /\ load(conf).ok) =>
                resp'[1].err # "NotFound"
    /\ (pc[1] = "saving" /\ form[1].action = "delete_share" /\ pc'[1] = "done") =>
          /\ SubmittedName(form[1]) \in FileSections(conf)
          /\ load(conf').ok
          /\ load(conf').defaults = load(conf).defaults
          /\ load(conf').sections =
                SelectSeq(load(conf).sections,
                          LAMBDA s : s.name # SubmittedName(form[1]))

\* C7: every delete_share is either refused with NotFound, file and backups
\* untouched, or removes exactly the named section.
C7_DeleteShare == [][C7_Step]_vars

\* a section was deleted, others remain, and a further delete_share was refused
C7_Witness ==
    /\ pc[1] = "done"
    /\ form[1].action = "delete_share"
    /\ resp[1].err = "NotFound"
    /\ Len(mutConf) >= 1
    /\ mutConf[Len(mutConf)].f.action = "delete_share"
    /\ Len(load(conf).sections) >= 1


\* C8: two add_share requests that both loaded the configuration before either
\* saved both report success, and the file is the later writer's rewrite, which
\* holds only one of the two new shares.
C8_Raced ==
    /\ pc[1] = "done" /\ pc[2] = "done"
    /\ form[1].action = "add_share" /\ form[2].action = "add_share"
    /\ resp[1].cat = "success" /\ resp[2].cat = "success"
    /\ SubmittedName(form[1]) # SubmittedName(form[2])
    /\ ~has_section(parser[1], SubmittedName(form[2]))
    /\ ~has_section(parser[2], SubmittedName(form[1]))

C8_LastWriterWins ==
    C8_Raced =>
        /\ conf.lines = write(parser[1]) \/ conf.lines = write(parser[2])
        /\ (SubmittedName(form[1]) \in FileSections(conf))
              # (SubmittedName(form[2]) \in FileSections(conf))

C8_Witness == C8_Raced /\ Len(mutConf) = 2

\* the file a logged write of fstab produced (requests run one at a time)
FstabAfter(j) == IF j < Len(mutFstab) THEN mutFstab[j + 1].pre ELSE fstab

Matches(m, l) == InLine(m, l) /\ ~IsComment(l)

\* the lines the specification of deleteEntry keeps: all but the matching
\* lines and a provenance comment directly after a matching line
RECURSIVE KeptFrom(_, _, _)
KeptFrom(L, q, m) ==
    IF q > Len(L) THEN <<>>
    ELSE IF Matches(m, L[q]) THEN KeptFrom(L, q + 1, m)
    ELSE IF IsProvenance(L[q]) /\ q > 1 /\ Matches(m, L[q - 1]) THEN KeptFrom(L, q + 1, m)
    ELSE <<L[q]>> \o KeptFrom(L, q + 1, m)

\* C9: delete_mount leaves the previous table minus every non-comment line
\* containing the mountpoint and minus the provenance comment immediately
\* following such a line; all other lines stay, in order.
C9_DeleteRemovesExactly ==
    \A j \in 1..Len(mutFstab) :
       mutFstab[j].f.action = "delete_mount" =>
          FstabAfter(j).lines =
             KeptFrom(mutFstab[j].pre.lines, 1, Strip(mutFstab[j].f.mountpoint))

\* C10: add_mount of an entry whose mountpoint does not occur in the table T,
\* followed by delete_mount of that mountpoint, gives back the lines of T.
C10_AddDeleteRestores ==
    \A j \in 1..(Len(mutFstab) - 1) :
       LET a == mutFstab[j]
           d == mutFstab[j + 1]
       IN  ( /\ a.f.action = "add_mount"
             /\ d.f.action = "delete_mount"
             /\ Strip(d.f.mountpoint) = Strip(a.f.mountpoint)
             /\ \A q \in 1..Len(a.pre.lines) :
                   ~InLine(Strip(a.f.mountpoint), a.pre.lines[q]) )
           => FstabAfter(j + 1).lines = a.pre.lines

\* the provenance comments of a table, in order
ProvComments(L) == SelectSeq(L, IsProvenance)

\* add_mount writes the comment directly before its entry: the tables in which
\* every provenance comment is followed by the entry it was written for
BuiltByAdds(L) ==
    \A q \in 1..Len(L) : IsProvenance(L[q]) => (q < Len(L) /\ L[q + 1].k = "ent")

\* the provenance comments whose own entry is not a line deleteEntry(m) removes
RECURSIVE StayingComments(_, _, _)
StayingComments(L, q, m) ==
    IF q > Len(L) THEN <<>>
    ELSE IF IsProvenance(L[q]) /\ ~(q < Len(L) /\ Matches(m, L[q + 1]))
      THEN <<L[q]>> \o StayingComments(L, q + 1, m)
    ELSE StayingComments(L, q + 1, m)

\* C11: on a table built by add_mount calls, delete_mount removes the
\* provenance comment of every entry it removes and keeps the provenance
\* comment of every entry that stays.
C11_CommentPairedWithEntry ==
    \A j \in 1..Len(mutFstab) :
       (mutFstab[j].f.action = "delete_mount" /\ BuiltByAdds(mutFstab[j].pre.lines))
          => ProvComments(FstabAfter(j).lines) =
                StayingComments(mutFstab[j].pre.lines, 1, Strip(mutFstab[j].f.mountpoint))

\* how many options of the list are the option `name`
Count(os, name) == Cardinality({j \in 1..Len(os) : os[j].o = name})

\* the entry line a logged add_mount appended
Appended(j) == FstabAfter(j).lines[Len(FstabAfter(j).lines)]

\* C12: the options of the line add_mount appends hold _netdev and nofail,
\* each of them added exactly when the submitted options did not have it.
C12_BothDefaultsOnce ==
    \A j \in 1..Len(mutFstab) :
       mutFstab[j].f.action = "add_mount" =>
          \A d \in {"_netdev", "nofail"} :
             Count(Appended(j).opts, d) =
                IF Count(mutFstab[j].f.options, d) > 0
                THEN Count(mutFstab[j].f.options, d) ELSE 1

\* the request in slot 1 is an add_mount that has just succeeded
AddDone ==
    /\ pc[1] = "done"
    /\ form[1].action = "add_mount"
    /\ resp[1].cat = "success"

\* what listEntries returns for the current mount table
Entries == get_fstab_mounts(fstab, procMounts)

\* the credentials files at a path
CredsAt(path) == {c \in creds : c.path = path}

\* C13 (state part): after a successful add_mount with user name and password
\* the credentials file of the mountpoint holds exactly that user name and
\* password, the appended entry has credentials=<path> among its options and
\* get_fstab_mounts reports <path> for the entry; after one without them the
\* appended entry has no credentials option.
C13_State ==
    AddDone =>
       LET f    == form[1]
           path == creds_file(Strip(f.mountpoint))
           e    == fstab.lines[Len(fstab.lines)]
       IN  IF UsesCreds(f)
           THEN /\ CredsAt(path) # {}
                /\ \A c \in CredsAt(path) :
                      c.user = Strip(f.mount_username) /\ c.pass = Strip(f.mount_password)
                /\ Count(e.opts, "credentials") = 1 + Count(f.options, "credentials")
                /\ \E k \in 1..Len(e.opts) : e.opts[k] = OCred(path)
                /\ Entries # <<>>
                /\ LET m == Entries[Len(Entries)] IN
                      /\ m.remote = Strip(f.remote)
                      /\ m.mountpoint = Strip(f.mountpoint)
                      /\ m.credentials_file = path
           ELSE Count(e.opts, "credentials") = Count(f.options, "credentials")

\* C13 (step part): an add_mount request touches the credentials directory
\* only when user name and password are both given.
C13_Step ==
    (pc[1] = "loaded" /\ Dispatch(form[1]) = "add_mount" /\ ~UsesCreds(form[1]))
        => creds' = creds

\* C13: add_mount writes the credentials file and the credentials option if
\* and only if user name and password are both non-empty, and get_fstab_mounts
\* reports the path of that file for the entry.
C13_CredentialsIffBoth == []C13_State /\ [][C13_Step]_vars

\* C14: after a successful add_mount with non-empty remote and mountpoint and
\* a type get_fstab_mounts accepts, get_fstab_mounts returns an entry with the
\* submitted remote, mountpoint and type, and exactly one entry when the table
\* was empty before.
C14_AddedIsListed ==
    (AddDone /\ Strip(form[1].remote) # "" /\ Strip(form[1].mountpoint) # ""
             /\ Lower(Strip(form[1].fstype)) \in NetTypes)
       => /\ \E k \in 1..Len(Entries) :
                /\ Entries[k].remote = Strip(form[1].remote)
                /\ Entries[k].mountpoint = Strip(form[1].mountpoint)
                /\ Entries[k].fstype = Strip(form[1].fstype)
          /\ mutFstab[Len(mutFstab)].pre.lines = <<>> => Len(Entries) = 1

\* a request is read in: index() has just computed its page data
C15_Read == pc[1] \in {"idle", "done"} /\ pc'[1] = "loaded"

\* the mountpoint is field two of a line of /proc/mounts whose field three is
\* one of the network types
LiveMounted(m) ==
    \E l \in procMounts : Len(l) >= 3 /\ l[2] = m /\ l[3] \in NetTypes

C15_Step ==
    C15_Read =>
       /\ \A k \in 1..Len(mounts'[1]) :
             mounts'[1][k].is_mounted <=> LiveMounted(mounts'[1][k].mountpoint)
       /\ fstab' = fstab

\* C15: at every read, is_mounted of each entry get_fstab_mounts returns is
\* true exactly when /proc/mounts, as it is at that read, has a line with the
\* entry's mountpoint as field two and a network type as field three; the
\* read leaves the mount table as it was.
C15_MountedFromLiveStatus == [][C15_Step]_vars

C15_Witness ==
    /\ pc[1] = "loaded"
    /\ nreq = 2
    /\ \E k \in 1..Len(mounts[1]) : mounts[1][k].is_mounted
    /\ \E k \in 1..Len(mounts[1]) :
          /\ ~mounts[1][k].is_mounted
          /\ \E l \in procMounts : l[2] = mounts[1][k].mountpoint

\* the required field of the submitted action that is empty, if any
RequiredEmpty(f) ==
    CASE f.action = "add_share"    -> Strip(f.share_name) = "" \/ Strip(f.path) = ""
      [] f.action = "delete_share" -> Strip(f.share_name) = ""
      [] f.action = "add_user"     -> Strip(f.username) = "" \/ Strip(f.password) = ""
      [] f.action = "delete_user"  -> Strip(f.username) = ""
      [] f.action = "add_mount"    -> Strip(f.remote) = "" \/ Strip(f.mountpoint) = ""
      [] f.action \in {"delete_mount", "mount", "umount"} -> Strip(f.mountpoint) = ""
      [] OTHER                     -> FALSE

\* no write of smb.conf or fstab was made for a request with an empty
\* required field
C16_State ==
    /\ \A j \in 1..Len(mutConf) : ~RequiredEmpty(mutConf[j].f)
    /\ \A j \in 1..Len(mutFstab) : ~RequiredEmpty(mutFstab[j].f)

\* the branch of a request with an empty required field runs no tool and
\* writes neither file
C16_Step ==
    (pc[1] = "loaded" /\ IsPost(form[1]) /\ RequiredEmpty(form[1]))
        => (tools' = tools /\ conf' = conf /\ fstab' = fstab)

\* C16: a POST of add_share, delete_share, add_user, delete_user, add_mount,
\* delete_mount, mount or umount with an empty required field changes neither
\* smb.conf nor fstab and runs no external tool.
C16_ValidatedBeforeUse == []C16_State /\ [][C16_Step]_vars

\* C17: every POST that has been handled ended with the redirect, never with
\* an exception that left index(), whatever the file or tool operation did.
C17_NoUnhandledException ==
    \A i \in Reqs : (pc[i] = "done" /\ IsPost(form[i])) => resp[i].code = 302

\* the tools the branch of an action runs
ToolsOf(a) ==
    CASE a = "add_user"     -> {"id", "useradd", "bash -c smbpasswd -a -s"}
      [] a = "delete_user"  -> {"smbpasswd -x"}
      [] a = "mount"        -> {"mount"}
      [] a = "umount"       -> {"umount"}
      [] a = "apply_mounts" -> {"mount -a"}
      [] a = "restart_smbd" -> {"systemctl restart smbd"}
      [] a = "test_config"  -> {"testparm -s"}
      [] OTHER              -> {}

\* the action a POST applies: its discriminator when index() has a branch for it
Applied(f) == IF f.action \in KnownActions THEN f.action ELSE "none"

\* a handled POST of an enumerated action answers the redirect with one
\* message; one of another discriminator answers the redirect with none
C18_State ==
    (pc[1] = "done" /\ IsPost(form[1])) =>
        IF form[1].action \in KnownActions
        THEN resp[1].code = 302 /\ resp[1].cat \in {"success", "danger"}
        ELSE resp[1] = Redirect

\* while a POST is handled only the effects of its own action take place
C18_Step ==
    (pc[1] \notin {"idle", "done"} /\ IsPost(form[1])) =>
        LET a == Applied(form[1]) IN
        /\ conf' # conf => a \in {"add_share", "delete_share"}
        /\ backups' # backups => a \in {"add_share", "delete_share", "backup_config"}
        /\ fstab' # fstab => a \in {"add_mount", "delete_mount"}
        /\ fstabBak' # fstabBak => a \in {"add_mount", "delete_mount"}
        /\ creds' # creds => a = "add_mount"
        /\ \A k \in (Len(tools) + 1)..Len(tools') : tools'[k].cmd \in ToolsOf(a)

\* C18: a POST with an enumerated action applies that action alone and
\* flashes exactly one message before the redirect, in every branch; a POST
\* with another or no discriminator applies nothing.
C18_OneActionOneMessage == []C18_State /\ [][C18_Step]_vars

IsGet(f) == f.method = "GET"

\* a step of index() for a GET request: its arrival or what follows it
C19_GetStep == IsGet(form'[1]) /\ (nreq' # nreq \/ pc[1] = "loaded")

C19_Step ==
    C19_GetStep =>
       /\ conf' = conf
       /\ fstab' = fstab
       /\ fstabBak' = fstabBak
       /\ creds' = creds
       /\ backups' = backups
       /\ \A k \in (Len(tools) + 1)..Len(tools') : tools'[k].cmd \in ReadingTools

\* C19: no step of a GET request changes smb.conf, fstab, the credentials
\* files or the backups, and the only tools it runs are reporting ones.
C19_GetOnlyReads == [][C19_Step]_vars

C19_Witness ==
    /\ pc[1] = "done"
    /\ IsGet(form[1])
    /\ form[1].action = "backup_config"
    /\ resp[1] = Rendered
    /\ nreq = 2
    /\ Len(tools) = 2 * Len(PageTools)
    /\ conf.exists

\* the ports tried so far are the first ones of the list, in its order
C20_InOrder ==
    /\ Len(boot.tried) <= Len(ports)
    /\ \A k \in 1..Len(boot.tried) : boot.tried[k] = ports[k]

\* once app.run has served on a port no other port is tried
C20_Step == boot.ran => boot'.tried = boot.tried

\* the process has ended: its status is a failure exactly when all four
\* ports were tried and none could be bound
C20_Exit ==
    boot.pc = "exited" =>
       (boot.status # 0 <=> (~boot.ran /\ Len(boot.tried) = Len(ports)))

C21_BackupFirst ==
    /\ (conf' # conf /\ conf.exists) => \E b \in backups : b.lines = conf.lines
    /\ fstab' # fstab =>
          /\ fstabBak.exists
          /\ fstabBak.lines = fstab.lines
          /\ fstabBak.nl = fstab.nl

\* the step of a store operation in which the backup copy fails
C21_BackupFails ==
    /\ pc'[1] = "done"
    /\ \/ pc[1] = "loaded" /\ resp'[1].err = "SaveFailed"
       \/ pc[1] = "am_backup"
       \/ pc[1] = "loaded" /\ form[1].action = "delete_mount"

C21_Step ==
    /\ C21_BackupFirst
    /\ C21_BackupFails =>
          /\ conf' = conf
          /\ fstab' = fstab
          /\ resp'[1].cat = "danger"

\* C21: add_share, delete_share, add_mount and delete_mount write their file
\* only after the backup copy of it has been made, and a failing backup copy
\* ends the operation with a failure message and the file not written.
C21_BackupBeforeWrite == [][C21_Step]_vars

C21_Witness ==
    /\ nreq = 2
    /\ Len(mutConf) = 1
    /\ mutConf[1].pre.exists
    /\ \E b \in backups : b.lines = mutConf[1].pre.lines
    /\ pc[1] = "done"
    /\ form[1].action = "delete_mount"
    /\ resp[1] = Flash("danger", "Exception")
    /\ ~fstabBak.exists
    /\ mutFstab = <<>>

\* C22: every credentials file that exists, and so holds the password, has
\* mode 0600, in every state.
C22_SecretAlwaysOwnerOnly == \A c \in creds : c.mode = "0600"

\* the command of each of the five single-command actions
CmdOf(a) ==
    CASE a = "mount"        -> "mount"
      [] a = "umount"       -> "umount"
      [] a = "delete_user"  -> "smbpasswd -x"
      [] a = "restart_smbd" -> "systemctl restart smbd"
      [] OTHER              -> "testparm -s"

\* the branch of one of the five actions is taken in this step
C23_Handled ==
    /\ pc[1] = "loaded"
    /\ pc'[1] = "done"
    /\ Dispatch(form[1]) \in {"mount", "umount", "delete_user", "restart_smbd",
                              "test_config"}

\* the calls the step added to the log
C23_New == SubSeq(tools', Len(tools) + 1, Len(tools'))

C23_StepExactlyOnce ==
    C23_Handled =>
       /\ Len(C23_New) = 1
       /\ C23_New[1].cmd = CmdOf(form[1].action)
       /\ resp'[1].cat = "success" <=> C23_New[1].rc = 0
       /\ resp'[1].cat # "success" => resp'[1] = Flash("danger", "ToolFailed")

\* C23: mount, umount, delete_user, restart_smbd and test_config run their
\* command exactly once per request, report success exactly when it exited
\* with code zero, and on failure flash the error output it wrote.
C23_ExactlyOnce == [][C23_StepExactlyOnce]_vars

C23_StepAtMostOnce ==
    C23_Handled =>
       /\ Len(C23_New) <= 1
       /\ Len(C23_New) = 0 =>
             /\ form[1].action = "mount"
             /\ resp'[1] = Flash("danger", "Exception")
       /\ Len(C23_New) = 1 =>
             /\ C23_New[1].cmd = CmdOf(form[1].action)
             /\ resp'[1].cat = "success" <=> C23_New[1].rc = 0
             /\ C23_New[1].rc = 1 => resp'[1] = Flash("danger", "ToolFailed")
             /\ C23_New[1].rc = -1 => resp'[1] = Flash("danger", "Exception")

\* C23 (amended): the five actions run their command at most once per request,
\* and exactly once unless mount fails to create the mount point directory
\* first; success is reported exactly when the command ran and exited with
\* code zero; a non-zero exit flashes the error output, and a failure to
\* create the directory or to start the command flashes the exception text.
C23_AtMostOnce == [][C23_StepAtMostOnce]_vars

C23_Witness ==
    /\ pc[1] = "done"
    /\ form[1].action = "mount"
    /\ Strip(form[1].mountpoint) # ""
    /\ resp[1] = Flash("danger", "Exception")
    /\ nreq = 1
    /\ tools = PageTools

C24_Step ==
    (form[1].action = "delete_share" /\ pc[1] \in {"loaded", "saving"}) =>
       /\ GlobalSections(conf') = GlobalSections(conf)
       /\ (IsGlobal(SubmittedName(form[1])) /\ pc'[1] = "done") =>
             /\ resp'[1].cat = "danger"
             /\ conf' = conf

\* C24: no delete_share removes a global-settings section: a delete_share
\* that names it fails and leaves the file unchanged.
C24_GlobalNeverDeleted == [][C24_Step]_vars

\* the file is there and load() failed to parse it
C25_Unparsable == conf.exists /\ ~load(conf).ok

C25_Step ==
    (C25_Unparsable /\ form[1].action \in {"add_share", "delete_share"}
        /\ pc[1] \in {"loaded", "saving"}) =>
       /\ conf' = conf
       /\ pc'[1] = "done" => resp'[1].cat = "danger"

\* C25: while the configuration file exists and cannot be parsed, an add_share
\* or delete_share request fails and does not write the file, so no content on
\* disk is dropped by a save that follows a failed load.
C25_NoSaveAfterFailedLoad == [][C25_Step]_vars

\* the entry lines of a table whose mountpoint field is not m, in order
OtherEntries(L, m) == SelectSeq(L, LAMBDA l : l.k = "ent" /\ l.mp # m)

\* C26: delete_mount of a (non-empty) mountpoint removes no entry whose
\* mountpoint field differs from it: those lines are in the rewritten table as
\* before, in order.
C26_OthersStay ==
    \A j \in 1..Len(mutFstab) :
       (mutFstab[j].f.action = "delete_mount" /\ Strip(mutFstab[j].f.mountpoint) # "") =>
          OtherEntries(FstabAfter(j).lines, Strip(mutFstab[j].f.mountpoint)) =
             OtherEntries(mutFstab[j].pre.lines, Strip(mutFstab[j].f.mountpoint))

\* the successful add_mount requests that wrote a credentials file
CredAdds == {j \in 1..Len(mutFstab) :
                mutFstab[j].f.action = "add_mount" /\ UsesCreds(mutFstab[j].f)}

\* C27: two successful add_mount requests with different mountpoints write
\* their credentials to two different files, so the credentials of each are
\* still on disk after the other.
C27_DistinctFiles ==
    \A j, k \in CredAdds :
       Strip(mutFstab[j].f.mountpoint) # Strip(mutFstab[k].f.mountpoint) =>
          /\ creds_file(Strip(mutFstab[j].f.mountpoint)) #
                creds_file(Strip(mutFstab[k].f.mountpoint))
          /\ ((\A q \in CredAdds : q > j =>
                   Strip(mutFstab[q].f.mountpoint) # Strip(mutFstab[j].f.mountpoint))
                /\ pc[1] \in {"idle", "done"})
              => \E c \in creds :
                    /\ c.path = creds_file(Strip(mutFstab[j].f.mountpoint))
                    /\ c.user = Strip(mutFstab[j].f.mount_username)
                    /\ c.pass = Strip(mutFstab[j].f.mount_password)

\* C28: an add_mount that reports failure creates or overwrites no
\* credentials file: between requests every credentials file on disk holds
\* what an add_mount that succeeded wrote to it.
C28_FailureLeavesNothing ==
    pc[1] \in {"idle", "done"} =>
       \A c \in creds : \E j \in CredAdds :
          /\ c.path = creds_file(Strip(mutFstab[j].f.mountpoint))
          /\ c.user = Strip(mutFstab[j].f.mount_username)
          /\ c.pass = Strip(mutFstab[j].f.mount_password)

\* the number of entries of a table with the mountpoint field m
EntCount(L, m) == Len(SelectSeq(L, LAMBDA l : l.k = "ent" /\ l.mp = m))

\* the successful add_mount requests for the mountpoint m
AddsOf(m) == {j \in 1..Len(mutFstab) :
                 /\ mutFstab[j].f.action = "add_mount"
                 /\ Strip(mutFstab[j].f.mountpoint) = m}

\* C29: once all requests have finished, the entry of every add_mount that
\* reported success is in the mount table (one more entry of its mountpoint
\* for each), unless a delete_mount named a mountpoint that matches its line.
C29_AddedSurvivesDeletes ==
    (mutFstab # <<>> /\ \A i \in Reqs : pc[i] \in {"idle", "done"}) =>
       \A j \in 1..Len(mutFstab) :
          LET m == Strip(mutFstab[j].f.mountpoint) IN
          ( /\ mutFstab[j].f.action = "add_mount"
            /\ \A k \in 1..Len(mutFstab) :
                  mutFstab[k].f.action = "delete_mount" =>
                     ~Matches(Strip(mutFstab[k].f.mountpoint), Appended(j)) )
          => EntCount(fstab.lines, m) =
                EntCount(mutFstab[1].pre.lines, m) + Cardinality(AddsOf(m))

C30_State ==
    \A j \in 1..Len(mutFstab) :
       LET d == mutFstab[j]
           m == Strip(d.f.mountpoint)
       IN  d.f.action = "delete_mount" =>
             /\ ( /\ j > 1
                  /\ mutFstab[j - 1].f.action = "delete_mount"
                  /\ Strip(mutFstab[j - 1].f.mountpoint) = m )
                => FstabAfter(j) = d.pre
             /\ (\A q \in 1..Len(d.pre.lines) : ~Matches(m, d.pre.lines[q]))
                => FstabAfter(j).lines = d.pre.lines

C30_Step ==
    (pc[1] = "dm_write" /\ pc'[1] = "done") => resp'[1] = Flash("success", "")

\* C30: a delete_mount that directly follows a delete_mount of the same
\* mountpoint leaves the table as the first one left it, and a delete_mount
\* whose mountpoint matches no line of the table leaves its lines unchanged;
\* every delete_mount that gets to rewrite the table reports success.
C30_DeleteIdempotent == []C30_State /\ [][C30_Step]_vars

\* the same mountpoint was deleted twice in a row, the first time removing lines
C30_Witness ==
    /\ Len(mutFstab) = 2
    /\ mutFstab[1].f.action = "delete_mount"
    /\ mutFstab[2].f = mutFstab[1].f
    /\ Strip(mutFstab[1].f.mountpoint) = "/mnt/x"
    /\ Len(mutFstab[1].pre.lines) = 7
    /\ mutFstab[2].pre # mutFstab[1].pre
    /\ fstab = mutFstab[2].pre
    /\ pc[1] = "done"
    /\ resp[1] = Flash("success", "")

====
